---- MODULE Spec2Model ----
(***************************************************************************)
(* The PDF chatbot backend as a state machine.                             *)
(*                                                                         *)
(* One request is followed from its arrival to the end of its handler.    *)
(* Three handlers exist in the source: the fixed-model POST /chat          *)
(* (src/index.js), the model-selectable POST /chat (src/unnamed/part_001)  *)
(* and the legacy GET /chat (both files).  A handler is an async function: *)
(* between two awaits it runs without interruption, and at every await the *)
(* timer callback and the close/aborted listener may run.  Each action     *)
(* below is one such uninterrupted run.                                    *)
(*                                                                         *)
(* The upload route, file-upload-queue, the ingestion worker             *)
(* (src/unnamed/part_003) with the vector store, and the rate limiter in  *)
(* front of the chat routes are modelled beside it, each with its own     *)
(* specification.                                                          *)
(*                                                                         *)
(* Strings are kept run-length encoded: a string is a sequence of runs     *)
(* [c |-> character, n |-> repetitions], n >= 1, so that strings of 4000   *)
(* characters are values the checker can enumerate.                        *)
(***************************************************************************)
EXTENDS Integers, Sequences, FiniteSets, TLC

VARIABLES
    variant,              \* which handler serves the request
    pc,                   \* position of the handler
    message,              \* req.body.message (req.query.message for GET)
    conversationHistory,  \* req.body.conversationHistory after its default
    model,                \* req.body.model after its default
    status,               \* HTTP status of a plain JSON reply, 0 when none
    reply,                \* error text of that JSON reply
    headersSet,           \* the SSE headers were set
    clientDisconnected,   \* the handler's flag
    timeout,              \* the deadline timer
    sanitizedMessage,
    retrievedDocs,        \* number of documents held in retrievedDocs
    ragError,             \* text of the exception caught by the inner catch
    chatCall,             \* arguments of chat.completions.create, once called
    chunks,               \* contents of the chunks the upstream has yielded
    fullResponse,
    resLog,               \* every res.write / res.end call, in call order
    error,                \* text of the exception caught by the outer catch
    uploads,              \* the POST /upload/pdf requests, in arrival order
    jobs,                 \* the jobs of file-upload-queue, in the order added
    store,                \* points of the Qdrant collection, per file and chunk
    storeUp,              \* the vector store answers
    now,                  \* the clock, in ms
    advances,             \* times the clock has been advanced
    limiter,              \* chatRateLimit's store: per client, hits and reset time
    admitted,             \* per client, the requests passed on to a chat handler
    rejected,             \* per client, the requests answered 429
    served,               \* the answers given on the routes without a handler of their own
    split,                \* a run of the text splitter
    parked,               \* the state of a second chat request while the first runs
    replay                \* a schedule of events being recorded or replayed

chatVars == <<variant, pc, message, conversationHistory, model, status, reply,
          headersSet,
          clientDisconnected, timeout, sanitizedMessage, retrievedDocs,
          ragError, chatCall, chunks, fullResponse, resLog, error>>

ingestVars == <<uploads, jobs, store, storeUp>>

limiterVars == <<now, advances, limiter, admitted, rejected>>

extraVars == <<served, split, parked, replay>>

vars == <<chatVars, ingestVars, limiterVars, extraVars>>

-----------------------------------------------------------------------------
(* Bounds of the exploration *)

MaxRuns == 2          \* runs in a request's message
MaxHistoryLen == 21   \* longest conversationHistory sent
MaxChunks == 3        \* chunks the upstream yields before it ends or fails

(* Program constants *)

MaxMessageLength == 4000
MaxHistoryEntries == 20
HistoryWindow == 10
RetrieverK_Fixed == 3
RetrieverK_Model == 5
RetrieverK_Legacy == 2

-----------------------------------------------------------------------------
(* JavaScript strings, run-length encoded *)

Undefined == "<undefined>"

Str(c, n) == IF n = 0 THEN <<>> ELSE <<[c |-> c, n |-> n]>>

RECURSIVE StrLen(_)
StrLen(s) == IF s = <<>> THEN 0 ELSE Head(s).n + StrLen(Tail(s))

IsWhitespace(c) == c = " "

RECURSIVE TrimStart(_)
TrimStart(s) ==
    IF s = <<>> THEN <<>>
    ELSE IF IsWhitespace(Head(s).c) THEN TrimStart(Tail(s))
    ELSE s

RECURSIVE TrimEnd(_)
TrimEnd(s) ==
    IF s = <<>> THEN <<>>
    ELSE IF IsWhitespace(s[Len(s)].c) THEN TrimEnd(SubSeq(s, 1, Len(s) - 1))
    ELSE s

Trim(s) == TrimEnd(TrimStart(s))

\* s.substring(0, k)
RECURSIVE Substring0(_, _)
Substring0(s, k) ==
    IF s = <<>> \/ k = 0 THEN <<>>
    ELSE IF Head(s).n <= k
         THEN <<Head(s)>> \o Substring0(Tail(s), k - Head(s).n)
         ELSE <<[c |-> Head(s).c, n |-> k]>>

\* arr.slice(-k)
SliceLast(arr, k) ==
    IF Len(arr) <= k THEN arr ELSE SubSeq(arr, Len(arr) - k + 1, Len(arr))

-----------------------------------------------------------------------------
(* Values a request can carry *)

Chars == {" ", "a"}
RunLens == {1, MaxMessageLength - 1, MaxMessageLength}

\* strings of exactly k runs, neighbouring runs of different characters
RECURSIVE RunsOf(_)
RunsOf(k) ==
    IF k = 0 THEN {<<>>}
    ELSE {Append(s, [c |-> c, n |-> n]) :
            s \in RunsOf(k - 1), c \in Chars, n \in RunLens}

Normal(s) == \A i \in 1..(Len(s) - 1) : s[i].c # s[i + 1].c

Strings == {s \in UNION {RunsOf(k) : k \in 0..MaxRuns} : Normal(s)}

JsString(s) == [t |-> "string", s |-> s]
JsOther(t) == [t |-> t, s |-> <<>>]

\* req.body.message: absent, null, a number, or a string
MessageValues ==
    {JsOther("undefined"), JsOther("null"), JsOther("number")}
        \cup {JsString(s) : s \in Strings}

\* !v
Falsy(v) ==
    \/ v.t \in {"undefined", "null"}
    \/ v.t = "string" /\ StrLen(v.s) = 0

HistoryEntry(i) ==
    [role |-> IF i % 2 = 1 THEN "user" ELSE "assistant",
     content |-> Str("h", i)]

HistoryOfLen(n) == [t |-> "array", a |-> [i \in 1..n |-> HistoryEntry(i)]]

\* req.body.conversationHistory: absent, a non-array, or an array
HistoryValues ==
    {[t |-> "undefined", a |-> <<>>], [t |-> "string", a |-> <<>>]}
        \cup {HistoryOfLen(n) : n \in 0..MaxHistoryLen}

\* const { conversationHistory = [] } = req.body
HistoryDefault(h) == IF h.t = "undefined" THEN HistoryOfLen(0) ELSE h

-----------------------------------------------------------------------------
(* The model table of the model-selectable variant *)

AVAILABLE_MODELS ==
    [m \in {"gpt-4o", "deepseek/deepseek-r1-0528:free",
            "anthropic/claude-3.5-sonnet",
            "meta-llama/llama-3.1-8b-instruct:free"} |->
        CASE m = "gpt-4o" ->
                [name |-> "GPT-4o", provider |-> "openai", cost |-> "paid"]
          [] m = "deepseek/deepseek-r1-0528:free" ->
                [name |-> "DeepSeek R1", provider |-> "deepseek", cost |-> "free"]
          [] m = "anthropic/claude-3.5-sonnet" ->
                [name |-> "Claude 3.5 Sonnet", provider |-> "anthropic",
                 cost |-> "paid"]
          [] OTHER ->
                [name |-> "Llama 3.1 8B", provider |-> "meta", cost |-> "free"]]

DEFAULT_MODEL == "deepseek/deepseek-r1-0528:free"

\* AVAILABLE_MODELS is an object literal: a property read that misses its own
\* keys goes on to Object.prototype, whose members are functions.
ObjectPrototypeKeys ==
    {"constructor", "toString", "valueOf", "hasOwnProperty",
     "isPrototypeOf", "propertyIsEnumerable", "toLocaleString"}

NoEntry == [name |-> Undefined, provider |-> Undefined, cost |-> Undefined]

\* AVAILABLE_MODELS[m]
ModelLookup(m) ==
    IF m \in DOMAIN AVAILABLE_MODELS THEN AVAILABLE_MODELS[m]
    ELSE IF m \in ObjectPrototypeKeys
         THEN [name |-> IF m = "constructor" THEN "Object" ELSE m,
               provider |-> Undefined, cost |-> Undefined]
         ELSE NoEntry

\* !AVAILABLE_MODELS[m]
ModelMissing(m) == ModelLookup(m) = NoEntry

\* const { model = DEFAULT_MODEL } = req.body
ModelDefault(m) == IF m = Undefined THEN DEFAULT_MODEL ELSE m

ModelValues ==
    {Undefined, "", "gpt-3.5-turbo", "constructor"} \cup DOMAIN AVAILABLE_MODELS

-----------------------------------------------------------------------------
(* The response: SSE frames and the calls made on res *)

TimeoutMessage == "Request timeout"
GenericMessage ==
    "An error occurred while processing your request. Please try again."
UnknownMessage == "Unknown error"

NoError == "<none>"

\* message texts of the exceptions the embedding client, the vector store or
\* the completion client may throw
ExceptionTexts ==
    {"", "connect ECONNREFUSED 127.0.0.1:6333",
     "401 Incorrect API key provided: sk-proj"}

DocsFrame(n) == [type |-> "docs", documents |-> n]

ModelInfoFrame(m) ==
    [type |-> "model_info", model |-> m, modelName |-> ModelLookup(m).name,
     provider |-> ModelLookup(m).provider, cost |-> ModelLookup(m).cost]

StreamFrame(content) == [type |-> "stream", content |-> content]

\* a done frame that reports the retriever's k as documentsUsed
DoneFrame_ReportsK(v, m, docs, response) ==
    CASE v = "legacy" -> [type |-> "done"]
      [] v = "fixed" ->
            [type |-> "done",
             metadata |-> [documentsUsed |-> RetrieverK_Fixed,
                           responseLength |-> StrLen(response)]]
      [] OTHER ->
            [type |-> "done",
             metadata |-> [model |-> m, documentsUsed |-> RetrieverK_Model,
                           responseLength |-> StrLen(response)]]

DoneFrame(v, m, docs, response) ==
    CASE v = "legacy" -> [type |-> "done"]
      [] v = "fixed" ->
            [type |-> "done",
             metadata |-> [documentsUsed |-> docs,
                           responseLength |-> StrLen(response)]]
      [] OTHER ->
            [type |-> "done",
             metadata |-> [model |-> m, documentsUsed |-> docs,
                           responseLength |-> StrLen(response)]]

ErrorFrame(text) == [type |-> "error", error |-> text]

\* res.write(`data: ${JSON.stringify(frame)}\n\n`)
Write(log, frame) == Append(log, [op |-> "write", frame |-> frame])

\* res.end()
End(log) == Append(log, [op |-> "end"])

\* the frames handed to res.write so far, in call order
RECURSIVE FramesOf(_)
FramesOf(log) ==
    IF log = <<>> THEN <<>>
    ELSE IF Head(log).op = "write"
         THEN <<Head(log).frame>> \o FramesOf(Tail(log))
         ELSE FramesOf(Tail(log))

Frames == FramesOf(resLog)

-----------------------------------------------------------------------------
(* Validation *)

NoRejection == ""

\* the POST checks with the length check on message left out
ValidationError_NoLengthCheck(v, m, h, mdl) ==
    IF v = "legacy"
    THEN IF Falsy(m) \/ m.t # "string"
         THEN "Missing message in query params"
         ELSE ""
    ELSE IF Falsy(m) \/ m.t # "string" \/ StrLen(Trim(m.s)) = 0
         THEN "Message is required and must be a non-empty string"
    ELSE IF h.t # "array" \/ Len(h.a) > MaxHistoryEntries
         THEN "Invalid conversation history. Maximum 20 messages allowed."
    ELSE IF v = "selectable" /\ ModelMissing(mdl)
         THEN "Invalid model selection"
    ELSE ""

\* the checks at the top of the three handlers; the text of the 400 reply,
\* or NoRejection
ValidationError(v, m, h, mdl) ==
    IF v = "legacy"
    THEN IF Falsy(m) \/ m.t # "string"
         THEN "Missing message in query params"
         ELSE NoRejection
    ELSE IF Falsy(m) \/ m.t # "string" \/ StrLen(Trim(m.s)) = 0
         THEN "Message is required and must be a non-empty string"
    ELSE IF StrLen(m.s) > MaxMessageLength
         THEN "Message too long. Maximum 4000 characters allowed."
    ELSE IF h.t # "array" \/ Len(h.a) > MaxHistoryEntries
         THEN "Invalid conversation history. Maximum 20 messages allowed."
    ELSE IF v = "selectable" /\ ModelMissing(mdl)
         THEN "Invalid model selection"
    ELSE NoRejection

\* a sanitizer that cuts without trimming
Sanitize_NoTrim(v, m) ==
    IF v = "legacy" THEN m.s ELSE Substring0(m.s, MaxMessageLength)

\* message.trim().substring(0, 4000); the legacy handler uses the query as is
Sanitize(v, m) ==
    IF v = "legacy" THEN m.s ELSE Substring0(Trim(m.s), MaxMessageLength)

-----------------------------------------------------------------------------
(* State after construction: the server listens, no request has arrived *)

NoCall ==
    [called |-> FALSE, model |-> Undefined, messages |-> <<>>, after |-> 0]

ChatInit ==
    /\ variant = "none"
    /\ pc = "idle"
    /\ message = JsOther("undefined")
    /\ conversationHistory = HistoryOfLen(0)
    /\ model = Undefined
    /\ status = 0
    /\ reply = NoRejection
    /\ headersSet = FALSE
    /\ clientDisconnected = FALSE
    /\ timeout = "none"
    /\ sanitizedMessage = <<>>
    /\ retrievedDocs = 0
    /\ ragError = NoError
    /\ chatCall = NoCall
    /\ chunks = <<>>
    /\ fullResponse = <<>>
    /\ resLog = <<>>
    /\ error = NoError

\* a handler from its first line to its first await
HandlerStart(v, m, h, mdl) ==
    /\ pc = "idle"
    /\ variant' = v
    /\ message' = m
    /\ conversationHistory' = h
    /\ model' = mdl
    /\ IF ValidationError(v, m, h, mdl) # NoRejection
       THEN /\ status' = 400
            /\ reply' = ValidationError(v, m, h, mdl)
            /\ pc' = "rejected"
            /\ UNCHANGED <<headersSet, timeout, sanitizedMessage>>
       ELSE /\ headersSet' = TRUE
            /\ timeout' = IF v = "legacy" THEN "none" ELSE "armed"
            /\ sanitizedMessage' = Sanitize(v, m)
            /\ pc' = "retrieving"
            /\ UNCHANGED <<status, reply>>
    /\ clientDisconnected' = FALSE
    /\ UNCHANGED <<retrievedDocs, ragError, chatCall, chunks, fullResponse,
                   resLog, error>>

\* app.get('/chat')
GetChat(m) == HandlerStart("legacy", m, HistoryOfLen(0), Undefined)

\* app.post('/chat') of src/index.js
PostChat(m, h) == HandlerStart("fixed", m, HistoryDefault(h), Undefined)

\* app.post('/chat') of the model-selectable server
PostChatModel(m, h, mdl) ==
    HandlerStart("selectable", m, HistoryDefault(h), ModelDefault(mdl))

-----------------------------------------------------------------------------
(* Retrieval and prompt assembly *)

RetrieverK(v) ==
    CASE v = "fixed" -> RetrieverK_Fixed
      [] v = "selectable" -> RetrieverK_Model
      [] OTHER -> RetrieverK_Legacy

\* sizes of the result of retriever.invoke that are explored
RetrievalSizes(v) == {0, 1, RetrieverK(v)}

NoContextText == "No specific context available from PDF documents."
ContextText ==
    "Answer the user query based on the following context from PDF documents:"

\* a prompt that is fixed before retrieval has answered
SYSTEM_PROMPT_BeforeRetrieval(v, n) ==
    IF v = "legacy"
    THEN Str("You are a helpful AI Assistant who answers from the PDF. Context:", 1)
    ELSE Str(NoContextText, 1)

\* SYSTEM_PROMPT; the n documents' page contents are written as n "doc" items
SYSTEM_PROMPT(v, n) ==
    IF v = "legacy"
    THEN Str("You are a helpful AI Assistant who answers from the PDF. Context:", 1)
            \o Str("doc", n)
    ELSE IF n > 0
         THEN Str(ContextText, 1) \o Str("doc", n)
         ELSE Str(NoContextText, 1)

\* conversationHistory.slice(0, 10): the first entries instead of the last
HistoryTail_First(a) == SubSeq(a, 1, IF Len(a) < HistoryWindow THEN Len(a) ELSE HistoryWindow)

\* conversationHistory.slice(-10)
HistoryTail(a) == SliceLast(a, HistoryWindow)

\* the messages array given to chat.completions.create
MessagesFor(v, n) ==
    IF v = "legacy"
    THEN <<[role |-> "system", content |-> SYSTEM_PROMPT(v, n)],
           [role |-> "user", content |-> sanitizedMessage]>>
    ELSE <<[role |-> "system", content |-> SYSTEM_PROMPT(v, n)]>>
            \o HistoryTail(conversationHistory.a)
            \o <<[role |-> "user", content |-> sanitizedMessage]>>

\* the model argument of chat.completions.create
CallModel(v) == IF v = "selectable" THEN model ELSE "gpt-4o"

\* the docs frame written whether or not any document was retrieved
PreambleWrites_AlwaysDocs(v, log, n) ==
    CASE v = "legacy" -> log
      [] v = "fixed" -> Write(log, DocsFrame(n))
      [] OTHER -> Write(Write(log, DocsFrame(n)), ModelInfoFrame(model))

\* the model-selectable handler announcing its model in place of the
\* retrieved documents
PreambleWrites_ModelForDocs(v, log, n) ==
    CASE v = "legacy" -> log
      [] v = "fixed" -> IF n > 0 THEN Write(log, DocsFrame(n)) ELSE log
      [] OTHER -> Write(log, ModelInfoFrame(model))

\* the writes between the end of retrieval and the completion call
PreambleWrites(v, log, n) ==
    CASE v = "legacy" -> log
      [] v = "fixed" -> IF n > 0 THEN Write(log, DocsFrame(n)) ELSE log
      [] OTHER ->
            Write(IF n > 0 THEN Write(log, DocsFrame(n)) ELSE log,
                  ModelInfoFrame(model))

\* from the end of retrieval with n documents to the await of the
\* completion call
OpenGeneration(n) ==
    /\ retrievedDocs' = n
    /\ resLog' = PreambleWrites(variant, resLog, n)
    /\ chatCall' = [called |-> TRUE, model |-> CallModel(variant),
                    messages |-> MessagesFor(variant, n),
                    after |-> Len(PreambleWrites(variant, resLog, n))]
    /\ pc' = "opening"

\* error.message || 'Unknown error' in the legacy handler, the constant text
\* in the POST handlers
CatchMessage(v, e) ==
    IF v = "legacy" THEN (IF e = "" THEN UnknownMessage ELSE e)
    ELSE GenericMessage

\* a finally block that leaves the timer alone
ClearTimeout_Never == timeout

\* clearTimeout(timeout) in the finally block of the POST handlers
ClearTimeout == IF timeout = "armed" THEN "cleared" ELSE timeout

\* the outer catch block, and the finally block after it
OuterCatch(e) ==
    /\ error' = e
    /\ resLog' = IF ~clientDisconnected
                 THEN End(Write(resLog, ErrorFrame(CatchMessage(variant, e))))
                 ELSE resLog
    /\ timeout' = ClearTimeout
    /\ pc' = "finished"

\* retriever.invoke resolves with n documents
RetrievalReturns(n) ==
    /\ pc = "retrieving"
    /\ n \in RetrievalSizes(variant)
    /\ OpenGeneration(n)
    /\ UNCHANGED <<variant, message, conversationHistory, model, status, reply,
                   headersSet, clientDisconnected, timeout, sanitizedMessage,
                   ragError, chunks, fullResponse, error>>

\* a retrieval failure that is not caught locally and reaches the outer catch
RetrievalThrows_Fatal(e) ==
    /\ pc = "retrieving"
    /\ OuterCatch(e)
    /\ UNCHANGED <<variant, message, conversationHistory, model, status, reply,
                   headersSet, clientDisconnected, sanitizedMessage, chunks,
                   fullResponse, retrievedDocs, ragError, chatCall>>

\* a retrieval failure that every handler recovers from with no documents
RetrievalThrows_Recovers(e) ==
    /\ pc = "retrieving"
    /\ ragError' = e
    /\ OpenGeneration(0)
    /\ UNCHANGED <<timeout, error>>
    /\ UNCHANGED <<variant, message, conversationHistory, model, status, reply,
                   headersSet, clientDisconnected, sanitizedMessage, chunks,
                   fullResponse>>

\* the embedding client, fromExistingCollection or retriever.invoke throws
RetrievalThrows(e) ==
    /\ pc = "retrieving"
    /\ IF variant = "legacy"
       THEN /\ OuterCatch(e)
            /\ UNCHANGED <<retrievedDocs, ragError, chatCall>>
       ELSE /\ ragError' = e
            /\ OpenGeneration(0)
            /\ UNCHANGED <<timeout, error>>
    /\ UNCHANGED <<variant, message, conversationHistory, model, status, reply,
                   headersSet, clientDisconnected, sanitizedMessage, chunks,
                   fullResponse>>

-----------------------------------------------------------------------------
(* Generation *)

\* content of the i-th chunk: absent or empty, or a token of i characters
ChunkContents(i) == {<<>>, Str("t", i)}

\* a + b on strings
Concat(a, b) ==
    IF a = <<>> THEN b
    ELSE IF b = <<>> THEN a
    ELSE IF a[Len(a)].c = Head(b).c
         THEN SubSeq(a, 1, Len(a) - 1)
                \o <<[c |-> Head(b).c, n |-> a[Len(a)].n + Head(b).n]>>
                \o Tail(b)
         ELSE a \o b

\* chat.completions.create resolves with a stream
CreateReturns ==
    /\ pc = "opening"
    /\ fullResponse' = <<>>
    /\ pc' = "streaming"
    /\ UNCHANGED <<variant, message, conversationHistory, model, status, reply,
                   headersSet, clientDisconnected, timeout, sanitizedMessage,
                   retrievedDocs, ragError, chatCall, chunks, resLog, error>>

\* chat.completions.create rejects
CreateThrows(e) ==
    /\ pc = "opening"
    /\ OuterCatch(e)
    /\ UNCHANGED <<variant, message, conversationHistory, model, status, reply,
                   headersSet, clientDisconnected, sanitizedMessage,
                   retrievedDocs, ragError, chatCall, chunks, fullResponse>>

\* the code after the for-await loop, and the finally block
AfterLoop ==
    /\ resLog' = IF ~clientDisconnected
                 THEN End(Write(resLog,
                                DoneFrame(variant, model, retrievedDocs,
                                          fullResponse)))
                 ELSE resLog
    /\ timeout' = ClearTimeout
    /\ pc' = "finished"

\* a loop body that sends the text accumulated so far instead of the chunk
ChunkWrite_Buffered(log, response, content) ==
    IF content # <<>>
    THEN Write(log, StreamFrame(Concat(response, content)))
    ELSE log

\* if (content) { ... res.write(stream frame) }
ChunkWrite(log, response, content) ==
    IF content # <<>> THEN Write(log, StreamFrame(content)) ELSE log

\* one iteration of the for-await loop: the stream yields a chunk
ChunkArrives(content) ==
    /\ pc = "streaming"
    /\ Len(chunks) < MaxChunks
    /\ content \in ChunkContents(Len(chunks) + 1)
    /\ chunks' = Append(chunks, content)
    /\ IF clientDisconnected
       THEN /\ AfterLoop
            /\ UNCHANGED fullResponse
       ELSE /\ fullResponse' = Concat(fullResponse, content)
            /\ resLog' = ChunkWrite(resLog, fullResponse, content)
            /\ UNCHANGED <<timeout, pc>>
    /\ UNCHANGED <<variant, message, conversationHistory, model, status, reply,
                   headersSet, clientDisconnected, sanitizedMessage,
                   retrievedDocs, ragError, chatCall, error>>

\* the stream ends: the loop is left normally
StreamEnds ==
    /\ pc = "streaming"
    /\ AfterLoop
    /\ UNCHANGED <<variant, message, conversationHistory, model, status, reply,
                   headersSet, clientDisconnected, sanitizedMessage,
                   retrievedDocs, ragError, chatCall, chunks, fullResponse,
                   error>>

\* the stream fails while the loop awaits the next chunk
StreamThrows(e) ==
    /\ pc = "streaming"
    /\ OuterCatch(e)
    /\ UNCHANGED <<variant, message, conversationHistory, model, status, reply,
                   headersSet, clientDisconnected, sanitizedMessage,
                   retrievedDocs, ragError, chatCall, chunks, fullResponse>>

-----------------------------------------------------------------------------
(* The two callbacks *)

Accepted == pc \in {"retrieving", "opening", "streaming", "finished"}

\* the 'close' / 'aborted' listener
Cleanup ==
    /\ Accepted
    /\ ~clientDisconnected
    /\ clientDisconnected' = TRUE
    /\ UNCHANGED <<variant, pc, message, conversationHistory, model, status,
                   reply, headersSet, timeout, sanitizedMessage, retrievedDocs,
                   ragError, chatCall, chunks, fullResponse, resLog, error>>

\* the client closes or aborts the connection
ClientClose == Cleanup /\ UNCHANGED <<ingestVars, limiterVars, extraVars>>

\* a timer callback that logs and leaves the response alone
TimeoutCallback_LogOnly == resLog

\* a timer callback that does not test clientDisconnected
TimeoutCallback_Unguarded == End(Write(resLog, ErrorFrame(TimeoutMessage)))

\* what the setTimeout callback does to the response
TimeoutCallback ==
    IF ~clientDisconnected
    THEN End(Write(resLog, ErrorFrame(TimeoutMessage)))
    ELSE resLog

\* the setTimeout callback runs
TimerExpires ==
    /\ timeout = "armed"
    /\ timeout' = "fired"
    /\ resLog' = TimeoutCallback
    /\ UNCHANGED <<variant, pc, message, conversationHistory, model, status,
                   reply, headersSet, clientDisconnected, sanitizedMessage,
                   retrievedDocs, ragError, chatCall, chunks, fullResponse,
                   error>>

\* the deadline timer expires
TimeoutFires == TimerExpires /\ UNCHANGED <<ingestVars, limiterVars, extraVars>>

-----------------------------------------------------------------------------
(* The rate limiter in front of GET /chat and POST /chat *)

MaxRequests == 52     \* chat requests of the busy client
MaxQuietRequests == 1 \* chat requests of the other client
MaxAdvances == 2      \* times the clock is advanced

\* windowMs: 15 * 60 * 1000
windowMs == 15 * 60 * 1000

\* max: 50
max == 50

\* client addresses, the limiter's keys
Clients == {"10.0.0.1", "10.0.0.2"}

RequestBudget ==
    [c \in Clients |-> IF c = "10.0.0.1" THEN MaxRequests ELSE MaxQuietRequests]

\* the two routes chatRateLimit is mounted on
ChatRoutes == {"GET /chat", "POST /chat"}

\* how far the clock is advanced in one step
AdvanceSteps == {1, windowMs - 1}

LimiterInit ==
    /\ now = 0
    /\ advances = 0
    /\ limiter = [c \in Clients |-> [totalHits |-> 0, resetTime |-> 0]]
    /\ admitted = [c \in Clients |-> <<>>]
    /\ rejected = [c \in Clients |-> 0]

RECURSIVE Total(_)
Total(log) == IF log = <<>> THEN 0 ELSE Head(log).n + Total(Tail(log))

\* one more request passed on at time t
Admit(log, t) ==
    IF log # <<>> /\ log[Len(log)].at = t
    THEN [log EXCEPT ![Len(log)].n = @ + 1]
    ELSE Append(log, [at |-> t, n |-> 1])

\* the limiter's count for client c after one more request at time t: a
\* client's window opens with its first request and the count starts again
\* once the window is over
Increment(entry, t) ==
    IF entry.totalHits = 0 \/ t >= entry.resetTime
    THEN [totalHits |-> 1, resetTime |-> t + windowMs]
    ELSE [entry EXCEPT !.totalHits = @ + 1]

\* a chat request of client c on either route passes through chatRateLimit:
\* over the ceiling it is answered 429, otherwise the route's handler runs
ChatRequest(c, route) ==
    /\ Total(admitted[c]) + rejected[c] < RequestBudget[c]
    /\ LET entry == Increment(limiter[c], now) IN
        /\ limiter' = [limiter EXCEPT ![c] = entry]
        /\ IF entry.totalHits > max
           THEN /\ rejected' = [rejected EXCEPT ![c] = @ + 1]
                /\ UNCHANGED admitted
           ELSE /\ admitted' = [admitted EXCEPT ![c] = Admit(@, now)]
                /\ UNCHANGED rejected
    /\ UNCHANGED <<now, advances, chatVars, ingestVars,
                   extraVars>>

\* time passes
Advance(d) ==
    /\ advances < MaxAdvances
    /\ advances' = advances + 1
    /\ now' = now + d
    /\ UNCHANGED <<limiter, admitted, rejected, chatVars, ingestVars,
                   extraVars>>

-----------------------------------------------------------------------------
(* The routes without a handler of their own *)

MaxServed == 3        \* requests on those routes that are followed

\* the two servers: src/index.js and the model-selectable one
Servers == {"fixed", "selectable"}

Methods == {"GET", "POST"}

PlainPaths == {"/", "/health", "/models"}

\* what Express answers to a request no chat or upload route matches
Respond(server, method, path) ==
    IF method = "GET" /\ path = "/"
    THEN [status |-> 404, body |-> "Not Found"]
    ELSE IF server = "selectable" /\ method = "GET" /\ path = "/models"
         THEN [status |-> 200, body |-> "models"]
         ELSE [status |-> 404, body |-> "Endpoint not found"]

PlainRequest(server, method, path) ==
    /\ Len(served) < MaxServed
    /\ IF served = <<>> THEN TRUE ELSE served[1].server = server
    /\ served' = Append(served,
            [server |-> server, method |-> method, path |-> path,
             status |-> Respond(server, method, path).status,
             body |-> Respond(server, method, path).body])
    /\ UNCHANGED <<chatVars, ingestVars, limiterVars, split, parked, replay>>

NextRoutes ==
    \E server \in Servers, method \in Methods, path \in PlainPaths :
        PlainRequest(server, method, path)

-----------------------------------------------------------------------------
(* The text splitter of the worker *)

MaxWindows == 3       \* window steps in the longest text split

\* chunkSize: 1000
chunkSize == 1000

\* chunkOverlap: 200
chunkOverlap == 200

\* lengths of the texts split: around every boundary of the window
DocLengths ==
    {0, 1}
    \cup {chunkOverlap + k * (chunkSize - chunkOverlap) : k \in 0..MaxWindows}
    \cup {chunkOverlap + k * (chunkSize - chunkOverlap) + 1 : k \in 0..MaxWindows}

\* no text is being split
NoSplit ==
    [state |-> "idle", L |-> 0, pos |-> 0, start |-> 0, chunks |-> <<>>]

\* the pieces held in currentDoc are the characters start .. pos-1
SplitTotal == split.pos - split.start

\* a splitter that starts every chunk afresh
KeepPopping_NoOverlap(total, len) == total > 0

\* the condition of the while loop that drops pieces from the front of
\* currentDoc after a chunk was emitted
KeepPopping(total, len) ==
    \/ total > chunkOverlap
    \/ (total + len > chunkSize /\ total > 0)

\* splitDocuments is called on a text of L characters without separators:
\* the pieces to merge are its characters
SplitStart(L) ==
    /\ split.state = "idle"
    /\ split' = [state |-> "merging", L |-> L, pos |-> 0, start |-> 0,
                 chunks |-> <<>>]
    /\ UNCHANGED <<chatVars, ingestVars, limiterVars, served, parked, replay>>

\* the next piece fits: it is appended to currentDoc
SplitAppend ==
    /\ split.state = "merging"
    /\ split.pos < split.L
    /\ SplitTotal + 1 <= chunkSize
    /\ split' = [split EXCEPT !.pos = @ + 1]
    /\ UNCHANGED <<chatVars, ingestVars, limiterVars, served, parked, replay>>

\* the next piece does not fit: currentDoc is emitted as a chunk
SplitEmit ==
    /\ split.state = "merging"
    /\ split.pos < split.L
    /\ SplitTotal + 1 > chunkSize
    /\ split' = [split EXCEPT
                    !.chunks = IF SplitTotal > 0
                               THEN Append(@, [from |-> split.start,
                                               to |-> split.pos])
                               ELSE @,
                    !.state = "popping"]
    /\ UNCHANGED <<chatVars, ingestVars, limiterVars, served, parked, replay>>

\* one turn of the while loop: the first piece of currentDoc is dropped
SplitPop ==
    /\ split.state = "popping"
    /\ KeepPopping(SplitTotal, 1)
    /\ split' = [split EXCEPT !.start = @ + 1]
    /\ UNCHANGED <<chatVars, ingestVars, limiterVars, served, parked, replay>>

\* the while loop ends and the piece is appended to what was kept
SplitResume ==
    /\ split.state = "popping"
    /\ ~KeepPopping(SplitTotal, 1)
    /\ split' = [split EXCEPT !.pos = @ + 1, !.state = "merging"]
    /\ UNCHANGED <<chatVars, ingestVars, limiterVars, served, parked, replay>>

\* no piece is left: what currentDoc holds is the last chunk
SplitEnd ==
    /\ split.state = "merging"
    /\ split.pos = split.L
    /\ split' = [split EXCEPT
                    !.chunks = IF SplitTotal > 0
                               THEN Append(@, [from |-> split.start,
                                               to |-> split.pos])
                               ELSE @,
                    !.state = "done"]
    /\ UNCHANGED <<chatVars, ingestVars, limiterVars, served, parked, replay>>

NextSplitter ==
    \/ \E L \in DocLengths : SplitStart(L)
    \/ SplitAppend
    \/ SplitEmit
    \/ SplitPop
    \/ SplitResume
    \/ SplitEnd

-----------------------------------------------------------------------------
(* State that the routes, the splitter and the paired requests start from *)

\* the locals and the response of a handler that has not been called
NoRequest ==
    [variant |-> "none", pc |-> "idle", message |-> JsOther("undefined"),
     conversationHistory |-> HistoryOfLen(0), model |-> Undefined,
     status |-> 0, reply |-> NoRejection, headersSet |-> FALSE,
     clientDisconnected |-> FALSE, timeout |-> "none",
     sanitizedMessage |-> <<>>, retrievedDocs |-> 0, ragError |-> NoError,
     chatCall |-> NoCall, chunks |-> <<>>, fullResponse |-> <<>>,
     resLog |-> <<>>, error |-> NoError]

\* no request has been followed yet
NoReplay ==
    [phase |-> "off", request |-> <<>>, todo |-> <<>>, firstLog |-> <<>>,
     running |-> "B", other |-> <<>>]

ExtraInit ==
    /\ served = <<>>
    /\ split = NoSplit
    /\ parked = NoRequest
    /\ replay = NoReplay

-----------------------------------------------------------------------------
(* Ingestion: POST /upload/pdf, file-upload-queue, the worker, the store *)

MaxUploads == 2       \* upload requests followed
MaxBacklog == 6       \* jobs waiting when the worker pool is explored

\* { concurrency: 5 }
concurrency == 5

\* fileUploadQueue.add is called without options and the Queue has no
\* defaultJobOptions: a job is attempted once
JobAttempts == 1

\* originalname of the PDFs a client uploads
Files == {"a.pdf", "b.pdf"}

\* number of chunks the splitter makes of each PDF
ChunksOf == [f \in Files |-> IF f = "a.pdf" THEN 1 ELSE 2]

\* req.file when the form carries no 'pdf' part
NoFile == [originalname |-> "", destination |-> "", path |-> <<>>]

\* req.file as multer's diskStorage leaves it for the u-th upload: the
\* unique suffix of the filename is the upload's own
ReqFile(u, f) ==
    [originalname |-> f, destination |-> "uploads/",
     path |-> <<"uploads/", u, f>>]

\* the payload handed to fileUploadQueue.add
JobData(file) ==
    [filename |-> file.originalname, destination |-> file.destination,
     path |-> file.path]

NewJob(u, file) ==
    [upload |-> u, name |-> "process-file", data |-> JobData(file),
     state |-> "waiting", calls |-> <<>>, returned |-> <<>>, added |-> 0,
     threw |-> "none", attemptsMade |-> 0]

EmptyStore == [f \in Files |-> [c \in 1..ChunksOf[f] |-> 0]]

IngestInit ==
    /\ uploads = <<>>
    /\ jobs = <<>>
    /\ store = EmptyStore
    /\ storeUp = TRUE

Init == ChatInit /\ IngestInit /\ LimiterInit /\ ExtraInit

\* an upload handler that answers without awaiting the enqueue
UploadArrives_FireAndForget(f) ==
    /\ Len(uploads) < MaxUploads
    /\ uploads' = Append(uploads,
            IF f = "undefined"
            THEN [file |-> NoFile, pc |-> "done", status |-> 400,
                  reply |-> "No file uploaded"]
            ELSE [file |-> ReqFile(Len(uploads) + 1, f), pc |-> "adding",
                  status |-> 200, reply |-> "uploaded"])
    /\ UNCHANGED <<jobs, store, storeUp, chatVars,
                   limiterVars, extraVars>>

\* the upload handler from its first line to  await fileUploadQueue.add(...)
UploadArrives(f) ==
    /\ Len(uploads) < MaxUploads
    /\ uploads' = Append(uploads,
            IF f = "undefined"
            THEN [file |-> NoFile, pc |-> "done", status |-> 400,
                  reply |-> "No file uploaded"]
            ELSE [file |-> ReqFile(Len(uploads) + 1, f), pc |-> "adding",
                  status |-> 0, reply |-> ""])
    /\ UNCHANGED <<jobs, store, storeUp, chatVars,
                   limiterVars, extraVars>>

\* the queue takes the job
AddLands(u) ==
    /\ u \in 1..Len(uploads)
    /\ uploads[u].pc = "adding"
    /\ jobs' = Append(jobs, NewJob(u, uploads[u].file))
    /\ uploads' = [uploads EXCEPT ![u].pc = "added"]
    /\ UNCHANGED <<store, storeUp, chatVars,
                   limiterVars, extraVars>>

\* fileUploadQueue.add rejects: the handler ends at the await, unanswered
AddRejects(u) ==
    /\ u \in 1..Len(uploads)
    /\ uploads[u].pc = "adding"
    /\ uploads' = [uploads EXCEPT ![u].pc = "threw"]
    /\ UNCHANGED <<jobs, store, storeUp, chatVars,
                   limiterVars, extraVars>>

\* the handler resumes after the await:  res.json({ message: 'uploaded' })
UploadReplies(u) ==
    /\ u \in 1..Len(uploads)
    /\ uploads[u].pc = "added"
    /\ uploads' = [uploads EXCEPT ![u].pc = "done", ![u].status = 200,
                                  ![u].reply = "uploaded"]
    /\ UNCHANGED <<jobs, store, storeUp, chatVars,
                   limiterVars, extraVars>>

JobIds == 1..Len(jobs)

Waiting == {j \in JobIds : jobs[j].state = "waiting"}

Active == {j \in JobIds : jobs[j].state = "active"}

\* the PDF a job is about
FileOf(job) == job.data.filename

\* the step the handler of an active job is awaiting
Awaits(j, step) ==
    /\ j \in Active
    /\ jobs[j].calls # <<>>
    /\ jobs[j].calls[Len(jobs[j].calls)] = step

\* a worker that takes a waiting job whatever is running
StartJob_Unbounded ==
    /\ Waiting # {}
    /\ LET j == CHOOSE w \in Waiting : \A x \in Waiting : w <= x
       IN jobs' = [jobs EXCEPT ![j].state = "active", ![j].calls = <<"load">>,
                               ![j].returned = <<>>, ![j].added = 0,
                               ![j].threw = "none",
                               ![j].attemptsMade = @ + 1]
    /\ UNCHANGED <<uploads, store, storeUp, chatVars,
                   limiterVars, extraVars>>

\* the worker takes the oldest waiting job when fewer than `concurrency`
\* handlers are running; the handler runs to  await loader.load()
StartJob ==
    /\ Waiting # {}
    /\ Cardinality(Active) < concurrency
    /\ LET j == CHOOSE w \in Waiting : \A x \in Waiting : w <= x
       IN jobs' = [jobs EXCEPT ![j].state = "active", ![j].calls = <<"load">>,
                               ![j].returned = <<>>, ![j].added = 0,
                               ![j].threw = "none",
                               ![j].attemptsMade = @ + 1]
    /\ UNCHANGED <<uploads, store, storeUp, chatVars,
                   limiterVars, extraVars>>

\* a catch block that logs and returns: the handler's promise resolves
Rethrow_Swallowed(j, step) ==
    [jobs EXCEPT ![j].state = "completed", ![j].threw = step]

\* a failure that takes the worker process down: every running handler is
\* lost with it
Rethrow_CrashesWorker(j, step) ==
    [k \in JobIds |->
        IF k = j THEN [jobs[k] EXCEPT !.state = "failed", !.threw = step]
        ELSE IF jobs[k].state = "active"
             THEN [jobs[k] EXCEPT !.state = "failed"]
             ELSE jobs[k]]

\* catch (error) { console.error(...); throw error }: the handler's promise
\* rejects and the queue applies the job's attempts
Rethrow(j, step) ==
    [jobs EXCEPT ![j].state = IF jobs[j].attemptsMade < JobAttempts
                              THEN "waiting" ELSE "failed",
                 ![j].threw = step]

\* loader.load() returns; the handler runs to  await splitter.splitDocuments
LoadReturns(j) ==
    /\ Awaits(j, "load")
    /\ jobs' = [jobs EXCEPT ![j].calls = Append(@, "split"),
                            ![j].returned = Append(@, "load")]
    /\ UNCHANGED <<uploads, store, storeUp, chatVars,
                   limiterVars, extraVars>>

LoadThrows(j) ==
    /\ Awaits(j, "load")
    /\ jobs' = Rethrow(j, "load")
    /\ UNCHANGED <<uploads, store, storeUp, chatVars,
                   limiterVars, extraVars>>

\* splitDocuments returns; the handler runs to  await vectorStore.addDocuments
SplitReturns(j) ==
    /\ Awaits(j, "split")
    /\ jobs' = [jobs EXCEPT ![j].calls = Append(@, "addDocuments"),
                            ![j].returned = Append(@, "split")]
    /\ UNCHANGED <<uploads, store, storeUp, chatVars,
                   limiterVars, extraVars>>

SplitThrows(j) ==
    /\ Awaits(j, "split")
    /\ jobs' = Rethrow(j, "split")
    /\ UNCHANGED <<uploads, store, storeUp, chatVars,
                   limiterVars, extraVars>>

\* a store write that keeps one point per chunk of a file
Upsert_ByChunk(st, f, c) == [st EXCEPT ![f][c] = 1]

\* the store takes a point for chunk c of file f: points get fresh ids
Upsert(st, f, c) == [st EXCEPT ![f][c] = @ + 1]

\* addDocuments writes the next chunk of the job's file
AddBatch(j) ==
    /\ Awaits(j, "addDocuments")
    /\ storeUp
    /\ jobs[j].added < ChunksOf[FileOf(jobs[j])]
    /\ store' = Upsert(store, FileOf(jobs[j]), jobs[j].added + 1)
    /\ jobs' = [jobs EXCEPT ![j].added = @ + 1]
    /\ UNCHANGED <<uploads, storeUp, chatVars,
                   limiterVars, extraVars>>

\* addDocuments returns and the handler with it: the job is completed
AddReturns(j) ==
    /\ Awaits(j, "addDocuments")
    /\ jobs[j].added = ChunksOf[FileOf(jobs[j])]
    /\ jobs' = [jobs EXCEPT ![j].state = "completed",
                            ![j].returned = Append(@, "addDocuments")]
    /\ UNCHANGED <<uploads, store, storeUp, chatVars,
                   limiterVars, extraVars>>

\* addDocuments throws because the store does not answer
AddThrows(j) ==
    /\ Awaits(j, "addDocuments")
    /\ ~storeUp
    /\ jobs[j].added < ChunksOf[FileOf(jobs[j])]
    /\ jobs' = Rethrow(j, "addDocuments")
    /\ UNCHANGED <<uploads, store, storeUp, chatVars,
                   limiterVars, extraVars>>

StoreGoesDown ==
    /\ storeUp
    /\ storeUp' = FALSE
    /\ UNCHANGED <<uploads, jobs, store, chatVars,
                   limiterVars, extraVars>>

StoreRecovers ==
    /\ ~storeUp
    /\ storeUp' = TRUE
    /\ UNCHANGED <<uploads, jobs, store, chatVars,
                   limiterVars, extraVars>>

Uploads ==
    \/ \E f \in Files \cup {"undefined"} : UploadArrives(f)
    \/ \E u \in 1..MaxUploads : AddLands(u)
    \/ \E u \in 1..MaxUploads : AddRejects(u)
    \/ \E u \in 1..MaxUploads : UploadReplies(u)

Works ==
    \/ StartJob
    \/ \E j \in JobIds : LoadReturns(j)
    \/ \E j \in JobIds : LoadThrows(j)
    \/ \E j \in JobIds : SplitReturns(j)
    \/ \E j \in JobIds : SplitThrows(j)
    \/ \E j \in JobIds : AddBatch(j)
    \/ \E j \in JobIds : AddReturns(j)
    \/ \E j \in JobIds : AddThrows(j)

NextIngest == Uploads \/ Works \/ StoreGoesDown \/ StoreRecovers

\* uploads, the queue, the worker and the store
SpecIngest == Init /\ [][NextIngest]_vars

\* the worker runs the handlers it has started, the services it awaits
\* answer, and a store that is down comes back
FairIngest ==
    SpecIngest /\ WF_vars(Works) /\ WF_vars(StoreRecovers)

\* the worker before a backlog of uploads of one PDF, all answered
PoolInit ==
    /\ ChatInit
    /\ uploads = [u \in 1..MaxBacklog |->
                    [file |-> ReqFile(u, "a.pdf"), pc |-> "done",
                     status |-> 200, reply |-> "uploaded"]]
    /\ jobs = [u \in 1..MaxBacklog |-> NewJob(u, ReqFile(u, "a.pdf"))]
    /\ store = EmptyStore
    /\ storeUp = TRUE
    /\ LimiterInit
    /\ ExtraInit

NextWorkerPool ==
    \/ StartJob
    \/ \E j \in JobIds : LoadReturns(j)
    \/ \E j \in JobIds : LoadThrows(j)
    \/ \E j \in JobIds : SplitReturns(j)
    \/ \E j \in JobIds : AddBatch(j)
    \/ \E j \in JobIds : AddReturns(j)

SpecWorkerPool == PoolInit /\ [][NextWorkerPool]_vars

-----------------------------------------------------------------------------
(* The two POST /chat handlers on one schedule: the handler of src/index.js
   serves a request while the events that reach it are recorded; then the
   model-selectable handler serves the same request and is given the same
   events in the same order. *)

PairMessages == {JsOther("undefined"), JsString(Str("a", 1))}

PairHistories == {[t |-> "undefined", a |-> <<>>], HistoryOfLen(1)}

PairModels == {Undefined, "gpt-4o", "gpt-3.5-turbo"}

\* retrieval results both retrievers can give
PairSizes == {0, 1}

PairErrors == {"connect ECONNREFUSED 127.0.0.1:6333"}

Event(t, a) == [type |-> t, arg |-> a]

Records(t, a) ==
    /\ replay.phase = "recording"
    /\ replay' = [replay EXCEPT !.todo = Append(@, Event(t, a))]
    /\ UNCHANGED <<ingestVars, limiterVars, served, split, parked>>

Replays(t) ==
    /\ replay.phase = "replaying"
    /\ replay.todo # <<>>
    /\ Head(replay.todo).type = t
    /\ replay' = [replay EXCEPT !.todo = Tail(@)]
    /\ UNCHANGED <<ingestVars, limiterVars, served, split, parked>>

\* the request reaches the handler of src/index.js
PairArrives(m, h, mdl) ==
    /\ replay.phase = "off"
    /\ PostChat(m, h)
    /\ replay' = [replay EXCEPT !.phase = "recording",
                                !.request = <<m, h, mdl>>]
    /\ UNCHANGED <<ingestVars, limiterVars, served, split, parked>>

RecordedStep ==
    \/ \E n \in PairSizes : RetrievalReturns(n) /\ Records("retrieved", n)
    \/ \E e \in PairErrors : RetrievalThrows(e) /\ Records("retrievalThrows", e)
    \/ CreateReturns /\ Records("created", 0)
    \/ \E e \in PairErrors : CreateThrows(e) /\ Records("createThrows", e)
    \/ \E i \in 1..MaxChunks : \E c \in ChunkContents(i) :
            ChunkArrives(c) /\ Records("chunk", c)
    \/ StreamEnds /\ Records("streamEnds", 0)
    \/ \E e \in PairErrors : StreamThrows(e) /\ Records("streamThrows", e)
    \/ Cleanup /\ Records("close", 0)
    \/ TimerExpires /\ Records("timeout", 0)

\* the locals and the response of a handler about to be called
ChatReset ==
    /\ variant' = "none"
    /\ pc' = "idle"
    /\ message' = JsOther("undefined")
    /\ conversationHistory' = HistoryOfLen(0)
    /\ model' = Undefined
    /\ status' = 0
    /\ reply' = NoRejection
    /\ headersSet' = FALSE
    /\ clientDisconnected' = FALSE
    /\ timeout' = "none"
    /\ sanitizedMessage' = <<>>
    /\ retrievedDocs' = 0
    /\ ragError' = NoError
    /\ chatCall' = NoCall
    /\ chunks' = <<>>
    /\ fullResponse' = <<>>
    /\ resLog' = <<>>
    /\ error' = NoError

\* the first handler is left where it is; a fresh request state is set up
\* for the second
Rewind ==
    /\ replay.phase = "recording"
    /\ replay' = [replay EXCEPT !.phase = "rewound", !.firstLog = resLog]
    /\ ChatReset
    /\ UNCHANGED <<ingestVars, limiterVars, served, split, parked>>

\* the same request reaches the model-selectable handler
ReplayArrives ==
    /\ replay.phase = "rewound"
    /\ PostChatModel(replay.request[1], replay.request[2], replay.request[3])
    /\ replay' = [replay EXCEPT !.phase = "replaying"]
    /\ UNCHANGED <<ingestVars, limiterVars, served, split, parked>>

ReplayedStep ==
    \/ Replays("retrieved") /\ RetrievalReturns(Head(replay.todo).arg)
    \/ Replays("retrievalThrows") /\ RetrievalThrows(Head(replay.todo).arg)
    \/ Replays("created") /\ CreateReturns
    \/ Replays("createThrows") /\ CreateThrows(Head(replay.todo).arg)
    \/ Replays("chunk") /\ ChunkArrives(Head(replay.todo).arg)
    \/ Replays("streamEnds") /\ StreamEnds
    \/ Replays("streamThrows") /\ StreamThrows(Head(replay.todo).arg)
    \/ Replays("close") /\ Cleanup
    \/ Replays("timeout") /\ TimerExpires

NextPair ==
    \/ \E m \in PairMessages, h \in PairHistories, mdl \in PairModels :
            PairArrives(m, h, mdl)
    \/ RecordedStep
    \/ Rewind
    \/ ReplayArrives
    \/ ReplayedStep

-----------------------------------------------------------------------------
(* Two POST /chat requests in the handler at once.  Node runs one handler at
   a time and turns to another at an await; each call of the handler has its
   own locals and its own response.  The chat variables hold the request that
   is running, parked holds the other one.  The events given to request B
   are recorded, and B is then served again alone on the same events. *)

ConcMessage == JsString(Str("a", 1))

\* the server the two requests reach, and their model field
ConcRequests ==
    {<<"fixed", Undefined>>, <<"selectable", Undefined>>,
     <<"selectable", "gpt-3.5-turbo">>}

ConcSize == 1

ConcError == "connect ECONNREFUSED 127.0.0.1:6333"

\* the locals and the response of the running request
Current ==
    [variant |-> variant,
     pc |-> pc,
     message |-> message,
     conversationHistory |-> conversationHistory,
     model |-> model,
     status |-> status,
     reply |-> reply,
     headersSet |-> headersSet,
     clientDisconnected |-> clientDisconnected,
     timeout |-> timeout,
     sanitizedMessage |-> sanitizedMessage,
     retrievedDocs |-> retrievedDocs,
     ragError |-> ragError,
     chatCall |-> chatCall,
     chunks |-> chunks,
     fullResponse |-> fullResponse,
     resLog |-> resLog,
     error |-> error]

\* the event loop turns to the other request, with the disconnect flag
\* declared once for the whole server
Switch_SharedFlag ==
    /\ replay.phase = "off"
    /\ variant' = parked.variant
    /\ pc' = parked.pc
    /\ message' = parked.message
    /\ conversationHistory' = parked.conversationHistory
    /\ model' = parked.model
    /\ status' = parked.status
    /\ reply' = parked.reply
    /\ headersSet' = parked.headersSet
    /\ timeout' = parked.timeout
    /\ sanitizedMessage' = parked.sanitizedMessage
    /\ retrievedDocs' = parked.retrievedDocs
    /\ ragError' = parked.ragError
    /\ chatCall' = parked.chatCall
    /\ chunks' = parked.chunks
    /\ fullResponse' = parked.fullResponse
    /\ resLog' = parked.resLog
    /\ error' = parked.error
    /\ parked' = Current
    /\ replay' = [replay EXCEPT !.running = IF @ = "A" THEN "B" ELSE "A"]
    /\ UNCHANGED <<clientDisconnected, ingestVars, limiterVars, served, split>>

\* the event loop turns to the other request
Switch ==
    /\ replay.phase = "off"
    /\ variant' = parked.variant
    /\ pc' = parked.pc
    /\ message' = parked.message
    /\ conversationHistory' = parked.conversationHistory
    /\ model' = parked.model
    /\ status' = parked.status
    /\ reply' = parked.reply
    /\ headersSet' = parked.headersSet
    /\ clientDisconnected' = parked.clientDisconnected
    /\ timeout' = parked.timeout
    /\ sanitizedMessage' = parked.sanitizedMessage
    /\ retrievedDocs' = parked.retrievedDocs
    /\ ragError' = parked.ragError
    /\ chatCall' = parked.chatCall
    /\ chunks' = parked.chunks
    /\ fullResponse' = parked.fullResponse
    /\ resLog' = parked.resLog
    /\ error' = parked.error
    /\ parked' = Current
    /\ replay' = [replay EXCEPT !.running = IF @ = "A" THEN "B" ELSE "A"]
    /\ UNCHANGED <<ingestVars, limiterVars, served, split>>

\* an event of the running request; those of request B are noted
Notes(t, a) ==
    /\ replay.phase = "off"
    /\ replay' = IF replay.running = "B"
                 THEN [replay EXCEPT !.todo = Append(@, Event(t, a))]
                 ELSE replay
    /\ UNCHANGED <<ingestVars, limiterVars, served, split, parked>>

\* a request reaches the POST /chat handler of server v
ConcArrives(v, mdl) ==
    /\ replay.phase = "off"
    /\ parked.variant \in {"none", v}
    /\ IF v = "fixed"
       THEN PostChat(ConcMessage, [t |-> "undefined", a |-> <<>>])
       ELSE PostChatModel(ConcMessage, [t |-> "undefined", a |-> <<>>], mdl)
    /\ replay' = IF replay.running = "B"
                 THEN [replay EXCEPT !.request = <<v, mdl>>]
                 ELSE replay
    /\ UNCHANGED <<ingestVars, limiterVars, served, split, parked>>

ConcStep ==
    \/ RetrievalReturns(ConcSize) /\ Notes("retrieved", ConcSize)
    \/ RetrievalThrows(ConcError) /\ Notes("retrievalThrows", ConcError)
    \/ CreateReturns /\ Notes("created", 0)
    \/ CreateThrows(ConcError) /\ Notes("createThrows", ConcError)
    \/ \E i \in 1..MaxChunks :
            ChunkArrives(Str("t", i)) /\ Notes("chunk", Str("t", i))
    \/ StreamEnds /\ Notes("streamEnds", 0)
    \/ StreamThrows(ConcError) /\ Notes("streamThrows", ConcError)
    \/ Cleanup /\ Notes("close", 0)
    \/ TimerExpires /\ Notes("timeout", 0)

RequestA == IF replay.running = "A" THEN Current ELSE parked

RequestB == IF replay.running = "B" THEN Current ELSE parked

\* what became of request A
Fate(r) ==
    [closed |-> r.clientDisconnected,
     timedOut |-> r.timeout = "fired",
     failed |-> r.error # NoError]

\* request B is served again, with no request A
Alone ==
    /\ replay.phase = "off"
    /\ replay.request # <<>>
    /\ RequestA.pc # "idle"
    /\ replay' = [replay EXCEPT !.phase = "rewound",
                                !.firstLog = RequestB.resLog,
                                !.running = "B",
                                !.other = Fate(RequestA)]
    /\ ChatReset
    /\ parked' = NoRequest
    /\ UNCHANGED <<ingestVars, limiterVars, served, split>>

\* the request B reaches the same handler again
AloneArrives ==
    /\ replay.phase = "rewound"
    /\ IF replay.request[1] = "fixed"
       THEN PostChat(ConcMessage, [t |-> "undefined", a |-> <<>>])
       ELSE PostChatModel(ConcMessage, [t |-> "undefined", a |-> <<>>],
                          replay.request[2])
    /\ replay' = [replay EXCEPT !.phase = "replaying"]
    /\ UNCHANGED <<ingestVars, limiterVars, served, split, parked>>

NextConcurrent ==
    \/ \E r \in ConcRequests : ConcArrives(r[1], r[2])
    \/ ConcStep
    \/ Switch
    \/ Alone
    \/ AloneArrives
    \/ ReplayedStep

-----------------------------------------------------------------------------
(* Specifications *)

\* the requests sent when the whole life of a request is explored
LifeMessages ==
    {JsOther("undefined"), JsString(Str("a", 1)),
     JsString(Str(" ", 1) \o Str("a", 1)),
     JsString(Str("a", MaxMessageLength) \o Str(" ", 1))}
LifeHistories ==
    {[t |-> "undefined", a |-> <<>>], HistoryOfLen(HistoryWindow + 1),
     HistoryOfLen(MaxHistoryEntries + 1)}
LifeModels == {Undefined, "gpt-4o", "gpt-3.5-turbo", "constructor"}

Arrives ==
    /\ pc = "idle"
    /\ UNCHANGED <<ingestVars, limiterVars, extraVars>>
    /\ \/ \E m \in LifeMessages : GetChat(m)
       \/ \E m \in LifeMessages, h \in LifeHistories : PostChat(m, h)
       \/ \E m \in LifeMessages, h \in LifeHistories, mdl \in LifeModels :
            PostChatModel(m, h, mdl)

ArrivesAny ==
    /\ pc = "idle"
    /\ UNCHANGED <<ingestVars, limiterVars, extraVars>>
    /\ \/ \E m \in MessageValues : GetChat(m)
       \/ \E m \in MessageValues, h \in HistoryValues : PostChat(m, h)
       \/ \E m \in MessageValues, h \in HistoryValues, mdl \in ModelValues :
            PostChatModel(m, h, mdl)

Retrieves ==
    /\ UNCHANGED <<ingestVars, limiterVars, extraVars>>
    /\ \/ \E n \in 0..RetrieverK_Model : RetrievalReturns(n)
       \/ \E e \in ExceptionTexts : RetrievalThrows(e)

Generates ==
    /\ UNCHANGED <<ingestVars, limiterVars, extraVars>>
    /\ \/ CreateReturns
       \/ \E e \in ExceptionTexts : CreateThrows(e)
       \/ \E i \in 1..MaxChunks : \E c \in ChunkContents(i) : ChunkArrives(c)
       \/ StreamEnds
       \/ \E e \in ExceptionTexts : StreamThrows(e)

Next == Arrives \/ Retrieves \/ Generates \/ ClientClose \/ TimeoutFires

\* a request from arrival to the end of its handler
Spec == Init /\ [][Next]_vars

\* the timer is a timer: armed, it fires unless it is cleared
FairSpec == Spec /\ WF_vars(TimeoutFires)

\* every request body, followed up to the opening of the completion call
NextAdmission == ArrivesAny \/ Retrieves \/ ClientClose \/ TimeoutFires

SpecAdmission == Init /\ [][NextAdmission]_vars

\* requests on the routes without a handler of their own
SpecRoutes == Init /\ [][NextRoutes]_vars

\* one text through the splitter
SpecSplitter == Init /\ [][NextSplitter]_vars

\* one request and one schedule given to both POST /chat handlers
SpecPair == Init /\ [][NextPair]_vars

\* two requests in the POST /chat handler of one server at once, then one
\* of them alone
SpecConcurrent == Init /\ [][NextConcurrent]_vars

\* the chat routes behind their limiter, and the clock
NextLimiter ==
    \/ \E c \in Clients, route \in ChatRoutes : ChatRequest(c, route)
    \/ \E d \in AdvanceSteps : Advance(d)

SpecLimiter == Init /\ [][NextLimiter]_vars

-----------------------------------------------------------------------------
(* Vocabulary of the properties *)

IsPost == variant \in {"fixed", "selectable"}

Min(a, b) == IF a <= b THEN a ELSE b

Ended == \E i \in 1..Len(resLog) : resLog[i].op = "end"

IsTerminal(f) == f.type \in {"done", "error"}

TerminalCount == Cardinality({i \in 1..Len(Frames) : IsTerminal(Frames[i])})

\* place of a frame type in  docs? model_info? stream* (done | error)?
Rank(f) ==
    CASE f.type = "docs" -> 1
      [] f.type = "model_info" -> 2
      [] f.type = "stream" -> 3
      [] OTHER -> 4

WellOrdered(fs) ==
    \A i, j \in 1..Len(fs) :
        i < j => /\ Rank(fs[i]) <= Rank(fs[j])
                 /\ Rank(fs[i]) = Rank(fs[j]) => Rank(fs[i]) = 3

\* the frames a step adds to the response
Added(before, after) == SubSeq(after, Len(before) + 1, Len(after))

-----------------------------------------------------------------------------
(* C1: the frames written for a POST /chat request are always a prefix of
   docs? model_info? stream* (done | error)?, whatever the interleaving of
   retrieval, tokens, failures, the timer and the disconnect. *)
C1_FrameOrder == IsPost => WellOrdered(Frames)

(* C2: a POST /chat request gets at most one terminal frame (done or error)
   from the timer callback, the completion path and the catch path together,
   and exactly one once its handler has finished with the client connected. *)
C2_OneTerminal ==
    IsPost => /\ TerminalCount <= 1
              /\ (pc = "finished" /\ ~clientDisconnected) => TerminalCount = 1

(* C3: when the timer fires before any token was forwarded and the client is
   connected, the timeout error frame is the only error frame and the last
   frame written for the request. *)
C3_TimeoutIsFinal ==
    IsPost =>
        \A i \in 1..Len(Frames) :
            (/\ Frames[i] = ErrorFrame(TimeoutMessage)
             /\ \A j \in 1..(i - 1) : Frames[j].type # "stream")
                => /\ i = Len(Frames)
                   /\ \A j \in 1..Len(Frames) :
                        Frames[j].type = "error" => j = i

(* C4: once clientDisconnected is true, no step of a POST /chat request
   writes a frame of any type. *)
C4_QuietAfterDisconnect ==
    [][(IsPost /\ clientDisconnected) => FramesOf(resLog') = FramesOf(resLog)]_vars

(* C5: under a timer that fires when left armed, every accepted POST /chat
   request either sees its client disconnect or gets a terminal frame and an
   ended response, even when retrieval or generation never returns. *)
C5_Terminates ==
    (IsPost /\ Accepted) ~> (clientDisconnected \/ (Ended /\ TerminalCount >= 1))

\* retrieval never returned and the timer ended the response
C5_Witness ==
    /\ IsPost
    /\ pc = "retrieving"
    /\ timeout = "fired"
    /\ ~clientDisconnected
    /\ Ended
    /\ TerminalCount = 1

\* the rejection conditions of POST /chat
BadRequest(m, h) ==
    \/ m.t = "undefined"
    \/ m.t # "string"
    \/ StrLen(Trim(m.s)) = 0
    \/ StrLen(m.s) > MaxMessageLength
    \/ h.t # "array"
    \/ Len(h.a) > MaxHistoryEntries

(* C6: a POST /chat request whose message is absent, not a string, blank
   after trimming or longer than 4000 characters, or whose history is not an
   array or has more than 20 entries, is answered 400 and stays rejected: no
   SSE header, no frame, no timer, no retrieval and no generation call. *)
C6_BadRequestRejected ==
    (IsPost /\ BadRequest(message, conversationHistory)) =>
        /\ pc = "rejected"
        /\ status = 400
        /\ ~headersSet
        /\ resLog = <<>>
        /\ timeout = "none"
        /\ chatCall = NoCall
        /\ ragError = NoError
        /\ retrievedDocs = 0

\* a message with visible text and more than 4000 characters, rejected
C6_Witness ==
    /\ IsPost
    /\ pc = "rejected"
    /\ status = 400
    /\ message.t = "string"
    /\ StrLen(Trim(message.s)) > 0
    /\ StrLen(message.s) > MaxMessageLength

(* C7: when retrieval throws in a POST /chat request, that step ends nothing:
   it writes no docs and no error frame, leaves retrievedDocs empty and opens
   the generation call with the no-context prompt; and a later done frame
   reports documentsUsed = 0. *)
C7_RetrievalFailsOpen ==
    [][/\ (IsPost /\ pc = "retrieving" /\ pc' # "retrieving")
            => (pc' = "opening" /\ chatCall'.called)
       /\ (IsPost /\ pc = "retrieving" /\ ragError' # NoError)
            => /\ retrievedDocs' = 0
               /\ chatCall'.messages[1] =
                    [role |-> "system", content |-> Str(NoContextText, 1)]
               /\ \A i \in 1..Len(Added(FramesOf(resLog), FramesOf(resLog'))) :
                    Added(FramesOf(resLog), FramesOf(resLog'))[i].type
                        \notin {"docs", "error"}
       /\ (ragError' # NoError)
            => \A i \in 1..Len(FramesOf(resLog')) :
                    /\ FramesOf(resLog')[i].type # "docs"
                    /\ FramesOf(resLog')[i].type = "done"
                        => FramesOf(resLog')[i].metadata.documentsUsed = 0
      ]_vars

\* retrieval threw, and the request completed normally all the same
C7_Witness ==
    /\ IsPost
    /\ ragError # NoError
    /\ pc = "finished"
    /\ timeout = "cleared"
    /\ TerminalCount = 1
    /\ Frames[Len(Frames)].type = "done"

(* C8: in every chat handler, POST and legacy GET, the text of an error
   frame is one of the constant messages, whatever exception was thrown. *)
C8_NoLeak ==
    \A i \in 1..Len(Frames) :
        Frames[i].type = "error"
            => Frames[i].error \in {TimeoutMessage, GenericMessage,
                                    UnknownMessage}

(* C9: in the model-selectable variant a request gets past validation only
   with a model listed in AVAILABLE_MODELS; any other value is answered 400
   before any header, frame, retrieval or generation call. *)
C9_AllowListOnly ==
    (variant = "selectable" /\ model \notin DOMAIN AVAILABLE_MODELS) =>
        /\ pc = "rejected"
        /\ status = 400
        /\ ~headersSet
        /\ resLog = <<>>
        /\ ~chatCall.called

(* C10: the messages given to the generation call of a POST /chat request
   with n history entries are one system message, the last min(n, 10)
   entries in order and unchanged, and the sanitized user message: never
   more than 12 entries. *)
C10_MessageList ==
    (IsPost /\ chatCall.called) =>
        LET h == conversationHistory.a
            n == Len(h)
            k == Min(n, 10)
            msgs == chatCall.messages
        IN  /\ Len(msgs) = k + 2
            /\ Len(msgs) <= 12
            /\ msgs[1].role = "system"
            /\ \A j \in 1..k : msgs[1 + j] = h[n - k + j]
            /\ msgs[k + 2] = [role |-> "user", content |-> sanitizedMessage]

\* a 20-entry history of which the first ten entries were dropped
C10_Witness ==
    /\ IsPost
    /\ chatCall.called
    /\ Len(conversationHistory.a) = MaxHistoryEntries
    /\ Len(chatCall.messages) = 12
    /\ chatCall.messages[2] = HistoryEntry(11)

-----------------------------------------------------------------------------
(* Streaming *)

\* the contents of the stream frames among fs, in order
RECURSIVE StreamContents(_)
StreamContents(fs) ==
    IF fs = <<>> THEN <<>>
    ELSE IF Head(fs).type = "stream"
         THEN <<Head(fs).content>> \o StreamContents(Tail(fs))
         ELSE StreamContents(Tail(fs))

RECURSIVE SumLen(_)
SumLen(cs) == IF cs = <<>> THEN 0 ELSE StrLen(Head(cs)) + SumLen(Tail(cs))

\* a chunk arrives in this step while the flag is down
ChunkWhileConnected == IsPost /\ ~clientDisconnected /\ Len(chunks') = Len(chunks) + 1

(* C11 as stated: every chunk the upstream yields while the client is
   connected adds exactly one stream frame carrying it, in arrival order. *)
C11_EveryChunkOneFrame ==
    [][ChunkWhileConnected =>
            StreamContents(FramesOf(resLog'))
                = Append(StreamContents(FramesOf(resLog)), chunks'[Len(chunks')])
      ]_vars

(* C11 amended: every chunk with non-empty content yielded while the client
   is connected adds exactly one stream frame carrying that content, after
   all earlier ones; a chunk with empty or absent content adds none, and no
   other step adds or changes a stream frame. *)
C11_ContentChunkOneFrame ==
    [][IsPost' =>
        StreamContents(FramesOf(resLog')) =
            IF ChunkWhileConnected /\ chunks'[Len(chunks')] # <<>>
            THEN Append(StreamContents(FramesOf(resLog)), chunks'[Len(chunks')])
            ELSE StreamContents(FramesOf(resLog))
      ]_vars

\* two tokens forwarded in order, the empty chunk between them skipped
C11_Witness ==
    /\ IsPost
    /\ ~clientDisconnected
    /\ chunks = <<Str("t", 1), <<>>, Str("t", 3)>>
    /\ StreamContents(Frames) = <<Str("t", 1), Str("t", 3)>>

(* C12: a done frame of a POST /chat request reports as documentsUsed the
   number of documents of the docs frame (0 without one) and as
   responseLength the summed content lengths of the stream frames written. *)
C12_DoneMetadata ==
    IsPost =>
        \A i \in 1..Len(Frames) :
            Frames[i].type = "done" =>
                /\ Frames[i].metadata.documentsUsed = retrievedDocs
                /\ \A j \in 1..Len(Frames) :
                        Frames[j].type = "docs" =>
                            Frames[j].documents = Frames[i].metadata.documentsUsed
                /\ (\A j \in 1..Len(Frames) : Frames[j].type # "docs")
                        => Frames[i].metadata.documentsUsed = 0
                /\ Frames[i].metadata.responseLength
                        = SumLen(StreamContents(Frames))

\* a completion after one retrieved document and two tokens
C12_Witness ==
    /\ IsPost
    /\ pc = "finished"
    /\ retrievedDocs = 1
    /\ Len(StreamContents(Frames)) = 2
    /\ \E i \in 1..Len(Frames) :
            /\ Frames[i].type = "done"
            /\ Frames[i].metadata.responseLength = 3

\* positions in resLog of the writes of frames of type t
WritesOf(t) ==
    {i \in 1..Len(resLog) : resLog[i].op = "write" /\ resLog[i].frame.type = t}

(* C13: in a POST /chat request a docs frame is written exactly when
   retrieval returned at least one document; with none the prompt is the
   no-context text and the generation call is opened all the same; docs and
   model_info are written before the generation call is made, never after. *)
C13_DocsBeforeGeneration ==
    IsPost =>
        /\ pc \in {"opening", "streaming", "finished"} <=> chatCall.called
        /\ ~chatCall.called => WritesOf("docs") \cup WritesOf("model_info") = {}
        /\ chatCall.called =>
            /\ WritesOf("docs") # {} <=> retrievedDocs > 0
            /\ retrievedDocs = 0 =>
                    chatCall.messages[1] =
                        [role |-> "system", content |-> Str(NoContextText, 1)]
            /\ variant = "selectable" => WritesOf("model_info") # {}
            /\ \A i \in WritesOf("docs") \cup WritesOf("model_info") :
                    i <= chatCall.after

\* generation opened without a docs frame, and opened after a docs frame
C13_Witness ==
    /\ variant = "selectable"
    /\ pc = "streaming"
    /\ retrievedDocs = RetrieverK_Model
    /\ WritesOf("docs") # {}
    /\ WritesOf("model_info") # {}

(* C14: once the client of a POST /chat request has disconnected after
   stream frames were written, nothing more is written: no stream, done or
   error frame, whatever the upstream call and the timer do. *)
C14_QuietAfterStreamingDisconnect ==
    [][(IsPost /\ clientDisconnected /\ WritesOf("stream") # {})
            => resLog' = resLog]_vars

\* a disconnect during streaming, after which the handler has finished
C14_Witness ==
    /\ IsPost
    /\ clientDisconnected
    /\ pc = "finished"
    /\ WritesOf("stream") # {}
    /\ Frames[Len(Frames)].type = "stream"

-----------------------------------------------------------------------------
(* Ingestion properties *)

JobsOfUpload(u) == {j \in JobIds : jobs[j].upload = u}

(* C15: an upload without a file is answered 400 and adds no job; an upload
   with a file adds at most one job, named process-file and carrying
   {filename, destination, path} of the file, exactly one once the enqueue
   has completed; 'uploaded' is answered only after that, so every upload
   answered 'uploaded' has its job in the queue. *)
C15_UploadEnqueues ==
    \A u \in 1..Len(uploads) :
        LET r == uploads[u] IN
        /\ r.file = NoFile =>
                r.pc = "done" /\ r.status = 400 /\ JobsOfUpload(u) = {}
        /\ r.file # NoFile =>
                /\ r.status # 400
                /\ Cardinality(JobsOfUpload(u)) <= 1
                /\ r.pc \in {"added", "done"}
                        => Cardinality(JobsOfUpload(u)) = 1
                /\ \A j \in JobsOfUpload(u) :
                        /\ jobs[j].name = "process-file"
                        /\ jobs[j].data =
                               [filename |-> r.file.originalname,
                                destination |-> r.file.destination,
                                path |-> r.file.path]
        /\ r.reply = "uploaded" =>
                r.status = 200 /\ Cardinality(JobsOfUpload(u)) = 1

\* one upload without a file refused, one with a file answered 'uploaded'
C15_Witness ==
    /\ \E u \in 1..Len(uploads) :
            uploads[u].file = NoFile /\ uploads[u].status = 400
    /\ \E u \in 1..Len(uploads) :
            /\ uploads[u].reply = "uploaded"
            /\ \E j \in JobIds : jobs[j].upload = u

(* C17: at most `concurrency` (5) job handlers are executing at any time,
   however many jobs wait; a waiting job is started only while fewer than 5
   are executing. *)
C17_BoundedConcurrency ==
    /\ Cardinality(Active) <= concurrency
    /\ (Waiting # {} /\ Cardinality(Active) >= concurrency) => ~ENABLED StartJob

\* the pool is full again after the first job finished and the sixth started
C17_Witness ==
    /\ Cardinality(Active) = concurrency
    /\ \E j \in JobIds : jobs[j].state \in {"completed", "failed"}

HandlerSteps == <<"load", "split", "addDocuments">>

IsPrefix(a, b) == Len(a) <= Len(b) /\ \A i \in 1..Len(a) : a[i] = b[i]

(* C18: a job is completed exactly when load, split and addDocuments all
   returned in its execution; a step that throws is the last one called,
   the job is then failed, and no step is called twice or out of order. *)
C18_CompletedIffAllSteps ==
    \A j \in JobIds :
        /\ jobs[j].state = "completed" <=> jobs[j].returned = HandlerSteps
        /\ jobs[j].state = "failed" <=> jobs[j].threw # "none"
        /\ jobs[j].threw # "none" =>
                /\ jobs[j].calls = Append(jobs[j].returned, jobs[j].threw)
                /\ jobs[j].state # "completed"
        /\ IsPrefix(jobs[j].calls, HandlerSteps)
        /\ IsPrefix(jobs[j].returned, jobs[j].calls)
        /\ jobs[j].attemptsMade <= 1

\* one job completed, another failed in addDocuments after a partial write
C18_Witness ==
    /\ \E j \in JobIds : jobs[j].state = "completed"
    /\ \E j \in JobIds :
            /\ jobs[j].state = "failed"
            /\ jobs[j].threw = "addDocuments"
            /\ jobs[j].added = 1

\* every chunk of the job's file is in the store
Covered(j) ==
    \A c \in 1..ChunksOf[FileOf(jobs[j])] : store[FileOf(jobs[j])][c] >= 1

(* C19: when the store comes back and stays available, a job that failed
   in addDocuments while the store was down is eventually run again and
   completed, with every chunk of its file in the store. *)
C19_FailedJobCompletes ==
    <>[]storeUp =>
        \A j \in 1..MaxUploads :
            (j \in JobIds /\ jobs[j].state = "failed"
                          /\ jobs[j].threw = "addDocuments")
                ~> (j \in JobIds /\ jobs[j].state = "completed" /\ Covered(j))

\* jobs of file f, and those among them that are completed
JobsOfFile(f) == {j \in JobIds : FileOf(jobs[j]) = f}

CompletedOfFile(f) == {j \in JobsOfFile(f) : jobs[j].state = "completed"}

(* C20: the store holds, for every chunk of a file, one point per job that
   wrote it: every completed job of the file has added its full set of
   chunks, two completed jobs leave every chunk twice, and nothing is
   checked for or removed. *)
C20_NoDeduplication ==
    \A f \in Files : \A c \in 1..ChunksOf[f] :
        /\ store[f][c] =
              Cardinality({j \in JobsOfFile(f) : jobs[j].added >= c})
        /\ store[f][c] >= Cardinality(CompletedOfFile(f))
        /\ \A j \in CompletedOfFile(f) : jobs[j].added = ChunksOf[f]

\* two uploads of the same PDF, both jobs completed, every chunk held twice
C20_Witness ==
    /\ Cardinality(CompletedOfFile("b.pdf")) = 2
    /\ \A c \in 1..ChunksOf["b.pdf"] : store["b.pdf"][c] = 2

-----------------------------------------------------------------------------
(* Rate limiter properties *)

\* requests of the log passed on in the windowMs that start at time t
RECURSIVE AdmittedFrom(_, _)
AdmittedFrom(log, t) ==
    IF log = <<>> THEN 0
    ELSE (IF Head(log).at >= t /\ Head(log).at < t + windowMs
          THEN Head(log).n ELSE 0) + AdmittedFrom(Tail(log), t)

(* C16: for every client address, no span of 15 minutes holds more than 50
   chat requests (GET and POST together) passed on to a chat handler. *)
C16_CeilingInAnySpan ==
    \A c \in Clients :
        \A i \in 1..Len(admitted[c]) :
            AdmittedFrom(admitted[c], admitted[c][i].at) <= max

-----------------------------------------------------------------------------
(* Request lifecycle properties *)

\* the generic error frame of the POST handlers is among the frames
GenericErrorWritten ==
    \E i \in 1..Len(Frames) : Frames[i] = ErrorFrame(GenericMessage)

DoneWritten == \E i \in 1..Len(Frames) : Frames[i].type = "done"

(* C24: once a POST /chat handler has terminated other than by the timeout
   (done written, generic error written, or ended silently after a
   disconnect), the deadline timer is not armed, and the timer callback does
   not run from then on. *)
C24_TimerDisarmed ==
    [][(IsPost' /\ (pc' = "finished" \/ DoneWritten' \/ GenericErrorWritten'))
            => /\ timeout' # "armed"
               /\ pc = "finished" => timeout' = timeout
      ]_vars

\* the three ways: done, generic error, silence after a disconnect
C24_Witness ==
    /\ IsPost
    /\ pc = "finished"
    /\ timeout = "cleared"
    /\ clientDisconnected
    /\ ~DoneWritten
    /\ ~GenericErrorWritten

(* C25: a disconnect observed while the retrieval call of a POST /chat
   request is pending makes the handler, once retrieval has returned, write
   nothing and not open the generation call. *)
C25_CancelledAtRetrieval ==
    [][(IsPost /\ pc = "retrieving" /\ clientDisconnected)
            => (resLog' = resLog /\ ~chatCall'.called)]_vars

(* C26: in a POST /chat request the generation call is made only by the
   step in which the retrieval call returns or throws, never while retrieval
   is pending, and its system prompt is built from the documents that
   retrieval returned (none when it threw). *)
C26_RetrievalThenGeneration ==
    [][IsPost' =>
        /\ pc' = "retrieving" => ~chatCall'.called
        /\ chatCall' # chatCall =>
                /\ pc = "retrieving"
                /\ pc' = "opening"
                /\ ~chatCall.called
        /\ chatCall'.called =>
                /\ chatCall'.messages[1] =
                      [role |-> "system",
                       content |-> IF retrievedDocs' > 0
                                   THEN Str(ContextText, 1)
                                            \o Str("doc", retrievedDocs')
                                   ELSE Str(NoContextText, 1)]
                /\ ragError' # NoError => retrievedDocs' = 0
      ]_vars

\* generation opened on the documents retrieval returned
C26_Witness ==
    /\ IsPost
    /\ pc = "opening"
    /\ retrievedDocs = 1
    /\ chatCall.called
    /\ chatCall.messages[1].content = Str(ContextText, 1) \o Str("doc", 1)

\* the message of the request passes the checks that do not concern its length
TrimmedFits ==
    /\ message.t = "string"
    /\ StrLen(Trim(message.s)) > 0
    /\ StrLen(Trim(message.s)) <= MaxMessageLength

(* C28: for an accepted POST /chat request the retrieval query and the final
   user message are the trimmed message cut to 4000 characters, non-empty
   and at most 4000 long; and no message whose trimmed form fits in 4000
   characters is rejected for its length. *)
C28_SanitizedNeverRejected ==
    IsPost =>
        /\ Accepted =>
            /\ sanitizedMessage = Substring0(Trim(message.s), MaxMessageLength)
            /\ StrLen(sanitizedMessage) > 0
            /\ StrLen(sanitizedMessage) <= MaxMessageLength
            /\ chatCall.called =>
                    chatCall.messages[Len(chatCall.messages)] =
                        [role |-> "user", content |-> sanitizedMessage]
        /\ TrimmedFits =>
                reply # "Message too long. Maximum 4000 characters allowed."

(* C28 amended: for an accepted POST /chat request the retrieval query and
   the final user message are the trimmed message, non-empty and at most
   4000 characters long (the cut to 4000 never shortens it); a message is
   rejected for its length exactly when it is longer than 4000 characters
   before trimming, even if its trimmed form fits. *)
C28_SanitizedAfterLengthCheck ==
    IsPost =>
        /\ Accepted =>
            /\ sanitizedMessage = Substring0(Trim(message.s), MaxMessageLength)
            /\ sanitizedMessage = Trim(message.s)
            /\ StrLen(sanitizedMessage) > 0
            /\ StrLen(sanitizedMessage) <= MaxMessageLength
            /\ chatCall.called =>
                    chatCall.messages[Len(chatCall.messages)] =
                        [role |-> "user", content |-> sanitizedMessage]
        /\ (message.t = "string" /\ StrLen(Trim(message.s)) > 0) =>
                (reply = "Message too long. Maximum 4000 characters allowed."
                    <=> StrLen(message.s) > MaxMessageLength)

\* a message with leading whitespace, accepted and handed on trimmed
C28_Witness ==
    /\ IsPost
    /\ chatCall.called
    /\ message.s # Trim(message.s)
    /\ sanitizedMessage = Trim(message.s)
    /\ StrLen(message.s) = MaxMessageLength

(* C30: in the POST /chat handlers nothing is called on a response after
   res.end(): an end is the last call made on the response. *)
C30_NothingAfterEnd ==
    IsPost =>
        \A i \in 1..Len(resLog) : resLog[i].op = "end" => i = Len(resLog)

-----------------------------------------------------------------------------
(* Isolation of job failures *)

\* job j fails in this step
Fails(j) == jobs[j].state = "active" /\ jobs'[j].state = "failed"

\* the handler of an active job has a next step, whatever the other jobs did
CanProceed(k) ==
    \/ ENABLED LoadReturns(k)
    \/ ENABLED SplitReturns(k)
    \/ ENABLED AddBatch(k)
    \/ ENABLED AddReturns(k)
    \/ ENABLED AddThrows(k)

(* C29: when the handler of one job throws, every other job, running or
   waiting, and the store are left as they were; the running ones can take
   their next step and the worker can start the oldest waiting job. *)
C29_FailureIsolated ==
    [][\A j \in JobIds :
            Fails(j) =>
                /\ \A k \in JobIds \ {j} : jobs'[k] = jobs[k]
                /\ Len(jobs') = Len(jobs)
                /\ store' = store
                /\ \A k \in Active \ {j} : CanProceed(k)'
                /\ Waiting' # {} => (ENABLED StartJob)'
      ]_vars

\* one job failed in its handler, another completed beside it
C29_Witness ==
    /\ \E j \in JobIds : jobs[j].state = "failed" /\ jobs[j].threw = "split"
    /\ \E k \in JobIds : jobs[k].state = "completed"

-----------------------------------------------------------------------------
(* Routes and splitter properties *)

(* C22: GET /health is answered with a success status. *)
C22_HealthAnswered ==
    \A i \in 1..Len(served) :
        (served[i].method = "GET" /\ served[i].path = "/health")
            => served[i].status \in 200..299

\* ceil(a / b) for b > 0
Ceil(a, b) == -((-a) \div b)

\* chunk i starts inside or at the end of its predecessor, and the chunks
\* cover the text from its first character to its last
Reconstructs(cs, L) ==
    IF cs = <<>> THEN L = 0
    ELSE /\ cs[1].from = 0
         /\ cs[Len(cs)].to = L
         /\ \A i \in 2..Len(cs) :
                /\ cs[i].from <= cs[i - 1].to
                /\ cs[i].from > cs[i - 1].from
                /\ cs[i].to > cs[i - 1].to

(* C21 as stated: a text of length L is split into exactly
   ceil((L - O) / (W - O)) chunks, from which the text is reconstructed. *)
C21_ChunkCount ==
    split.state = "done" =>
        /\ Len(split.chunks)
              = Ceil(split.L - chunkOverlap, chunkSize - chunkOverlap)
        /\ Reconstructs(split.chunks, split.L)

(* C21 amended: a text of length L >= 1 without separators is split into
   exactly 1 chunk when L <= W and ceil((L - O) / (W - O)) chunks otherwise
   (none when L = 0), in document order, each at most W characters long and
   each starting exactly O characters before the end of its predecessor;
   dropping those O characters from every chunk but the first and
   concatenating gives the text back. *)
C21_ChunkCountFloorOne ==
    split.state = "done" =>
        /\ Len(split.chunks) =
              IF split.L = 0 THEN 0
              ELSE IF split.L <= chunkSize THEN 1
              ELSE Ceil(split.L - chunkOverlap, chunkSize - chunkOverlap)
        /\ Reconstructs(split.chunks, split.L)
        /\ \A i \in 1..Len(split.chunks) :
                /\ split.chunks[i].to - split.chunks[i].from <= chunkSize
                /\ i > 1 => split.chunks[i].from
                                = split.chunks[i - 1].to - chunkOverlap

\* a text one character longer than two windows, split into three chunks
C21_Witness ==
    /\ split.state = "done"
    /\ split.L = 2 * chunkSize - chunkOverlap + 1
    /\ Len(split.chunks) = 3

-----------------------------------------------------------------------------
(* The fixed-model handler against the model-selectable one *)

\* a call on the response as the fixed-model handler makes it: no
\* metadata.model in done
DropModel(call) ==
    IF call.op = "write" /\ call.frame.type = "done"
    THEN [op |-> "write",
          frame |-> [type |-> "done",
                     metadata |->
                        [documentsUsed |-> call.frame.metadata.documentsUsed,
                         responseLength |-> call.frame.metadata.responseLength]]]
    ELSE call

\* the calls of the model-selectable handler with model_info removed
RECURSIVE WithoutModel(_)
WithoutModel(log) ==
    IF log = <<>> THEN <<>>
    ELSE IF Head(log).op = "write" /\ Head(log).frame.type = "model_info"
         THEN WithoutModel(Tail(log))
         ELSE <<DropModel(Head(log))>> \o WithoutModel(Tail(log))

\* the second handler cannot take the next event of the schedule
ReplayBlocked ==
    replay.phase = "replaying" /\ replay.todo # <<>> /\ ~ENABLED ReplayedStep

\* the second handler has been given all it can take of the schedule
ReplayOver ==
    replay.phase = "replaying" /\ (replay.todo = <<>> \/ ReplayBlocked)

(* C27 as stated: for the same request and the same events the fixed-model
   handler writes what the model-selectable handler writes, model_info and
   metadata.model left out. *)
C27_SameFrames ==
    ReplayOver => replay.firstLog = WithoutModel(resLog)

(* C27 amended: the same, for a request whose model field the
   model-selectable handler accepts; such a request is accepted by both
   handlers or rejected by both, and the model-selectable handler can follow
   every event of the schedule. *)
C27_SameFramesWhenModelAccepted ==
    (replay.phase = "replaying" /\ ~ModelMissing(model)) =>
        /\ ~ReplayBlocked
        /\ replay.todo = <<>> => replay.firstLog = WithoutModel(resLog)

\* both handlers streamed two tokens and wrote done
C27_Witness ==
    /\ replay.phase = "replaying"
    /\ replay.todo = <<>>
    /\ pc = "finished"
    /\ Len(StreamContents(Frames)) = 2
    /\ \E i \in 1..Len(Frames) : Frames[i].type = "model_info"
    /\ \E i \in 1..Len(Frames) : Frames[i].type = "done"
    /\ replay.firstLog = WithoutModel(resLog)

-----------------------------------------------------------------------------
(* Concurrent requests *)

(* C23: a POST /chat request served while another request is in the handler
   (which may disconnect, time out or fail) is written the frames it is
   written when served alone on the same events, and can take every one of
   these events. *)
C23_AsIfAlone ==
    replay.phase = "replaying" =>
        /\ ~ReplayBlocked
        /\ replay.todo = <<>> => replay.firstLog = resLog

\* B completed with two tokens next to a request A that was disconnected
\* and failed
C23_Witness ==
    /\ replay.phase = "replaying"
    /\ replay.todo = <<>>
    /\ replay.other # <<>>
    /\ replay.other.closed
    /\ replay.other.failed
    /\ ~clientDisconnected
    /\ DoneWritten
    /\ Len(StreamContents(Frames)) = 2
    /\ replay.firstLog = resLog

-----------------------------------------------------------------------------
(* The legacy GET /chat handler *)

\* an upstream call of the handler is outstanding
Pending == pc \in {"retrieving", "opening", "streaming"}

ErrorCount ==
    Cardinality({i \in 1..Len(Frames) : Frames[i].type = "error"})

\* the last two calls on the response are the write of an error frame and
\* end
EndsWithError(log) ==
    /\ Len(log) >= 2
    /\ log[Len(log) - 1].op = "write"
    /\ log[Len(log) - 1].frame.type = "error"
    /\ log[Len(log)].op = "end"

(* C31: in the legacy GET /chat handler a generation call is made only
   after a retrieval that did not fail; the step in which retrieval fails
   ends the request without a generation call, then or later; with the
   client connected it adds exactly an error frame and end to the response,
   the only error frame of the request, and with the client gone it adds
   nothing.  The handler has no deadline timer, so while one of its upstream
   calls is outstanding the response holds no done or error frame and is not
   ended. *)
C31_LegacyFailsClosed ==
    [][variant' = "legacy" =>
        /\ timeout' = "none"
        /\ Pending' => (TerminalCount' = 0 /\ ~Ended')
        /\ chatCall'.called => ragError' = NoError
        /\ (pc = "retrieving" /\ pc' = "finished") =>
                /\ error' # NoError
                /\ ~chatCall'.called
                /\ IF clientDisconnected
                   THEN resLog' = resLog
                   ELSE /\ Len(resLog') = Len(resLog) + 2
                        /\ SubSeq(resLog', 1, Len(resLog)) = resLog
                        /\ EndsWithError(resLog')
                        /\ ErrorCount' = 1
        /\ (pc = "finished" /\ ~chatCall.called) =>
                (~chatCall'.called /\ resLog' = resLog /\ pc' = "finished")
      ]_vars

\* retrieval failed with the client connected: one error frame, end, no
\* generation call
C31_Witness ==
    /\ variant = "legacy"
    /\ pc = "finished"
    /\ error # NoError
    /\ ~chatCall.called
    /\ ~clientDisconnected
    /\ ErrorCount = 1
    /\ Ended
    /\ timeout = "none"

====
